---- MODULE Spec2Model ----
(***************************************************************************)
(* A model of simply-put (src/app.go): a multi-tenant JSON facade over the *)
(* App Engine datastore.  Documents are nested maps, the datastore holds   *)
(* flat property lists, and the codec (mapToPlist / plistToMap) converts   *)
(* between the two.                                                        *)
(*                                                                         *)
(* Representation.  A JSON key or a property name is the sequence of its   *)
(* "."-separated segments: the key "a.b" is <<"a", "b">>, so that          *)
(* strings.Split(name, ".") is the sequence itself and prefix + k + "."    *)
(* is concatenation of segment sequences.  A value is a record with a tag  *)
(* t ("s" scalar, "a" array, "d" nested map) and one field per shape.      *)
(***************************************************************************)
EXTENDS Integers, Sequences, FiniteSets, TLC

\* ---------------------------------------------------------------- bounds
MaxScalar == 2      \* caller-supplied scalars are 1..MaxScalar
MaxArrayLen == 2    \* longest JSON array in a generated document
MaxPathLen == 2     \* most segments in a generated property name
MaxPlistLen == 3    \* longest generated raw property list
MaxId == 2          \* entity ids are 1..MaxId
MaxTime == 2        \* the clock reads 1..MaxTime
MaxWrites == 2      \* successful Put/Delete calls in one behaviour
MaxLimit == 2       \* largest limit parameter of a list request
MaxRows == 3        \* most entities of the kind a client pages through

\* ------------------------------------------------------------- constants
idKey == <<"_id">>
createdKey == <<"_created">>
updatedKey == <<"_updated">>

\* ------------------------------------------------------------ JSON values
EmptyDoc == <<>>
\* A caller-supplied JSON scalar (1..MaxScalar stand for JSON strings).
Scalar(x) == [t |-> "s", s |-> x, a |-> <<>>, d |-> <<>>]
\* An int64 the server produces: a key's id or a Unix time.
Int64(x) == [t |-> "n", s |-> x, a |-> <<>>, d |-> <<>>]
Array(xs) == [t |-> "a", s |-> 0, a |-> xs, d |-> <<>>]
Doc(m) == [t |-> "d", s |-> 0, a |-> <<>>, d |-> m]

Property(name, value, multiple) == [Name |-> name, Value |-> value, Multiple |-> multiple]

\* All orderings of a finite set, as sequences without repetition.
Perms(S) == {f \in [1..Cardinality(S) -> S] : \A i, j \in 1..Cardinality(S) : f[i] = f[j] => i = j}

\* ------------------------------------------------------------- mapToPlist
\* The properties one value contributes, for a fixed choice of sub-lists.
ArrayProps(name, xs) == [i \in 1..Len(xs) |-> Property(name, xs[i], TRUE)]

RECURSIVE ConcatChoices(_)
\* chunks: a sequence of sets of property lists; all concatenations that
\* take one list from each set, in order.
ConcatChoices(chunks) ==
    IF chunks = <<>> THEN {<<>>}
    ELSE {c \o rest : c \in Head(chunks), rest \in ConcatChoices(Tail(chunks))}

RECURSIVE mapToPlist(_, _)
\* Go iterates a map in an unspecified order, so the result is the SET of
\* property lists the loop can produce.
mapToPlist(prefix, m) ==
    LET chunk(k) ==
            IF m[k].t = "d" THEN mapToPlist(prefix \o k, m[k].d)
            ELSE IF m[k].t = "a" THEN {ArrayProps(prefix \o k, m[k].a)}
            ELSE {<<Property(prefix \o k, m[k], FALSE)>>}
    IN UNION {ConcatChoices([i \in 1..Len(ks) |-> chunk(ks[i])]) : ks \in Perms(DOMAIN m)}

\* ------------------------------------------------------------- plistToMap
\* Mutant of SetLeaf: a repeated name overwrites instead of growing an array.
SetLeafOverwrite(sub, leaf, value) == (leaf :> value) @@ sub

\* Lines 278-293: store the value at the leaf key of the map reached.
SetLeaf(sub, leaf, value) ==
    IF leaf \in DOMAIN sub
    THEN IF sub[leaf].t = "a"
         THEN [sub EXCEPT ![leaf] = Array(Append(@.a, value))]
         ELSE [sub EXCEPT ![leaf] = Array(<<@, value>>)]
    ELSE (leaf :> value) @@ sub

RECURSIVE Traverse(_, _, _)
\* Lines 260-293 for one property: walk parts[:len-1] from sub, then set
\* the leaf.  On a segment that holds a non-map the code leaves sub where
\* it is and goes on with the next segment.
Traverse(sub, parts, value) ==
    IF Len(parts) = 1 THEN SetLeaf(sub, <<parts[1]>>, value)
    ELSE LET p == <<parts[1]>> IN
         IF p \in DOMAIN sub
         THEN IF sub[p].t = "d"
              THEN [sub EXCEPT ![p] = Doc(Traverse(@.d, Tail(parts), value))]
              ELSE Traverse(sub, Tail(parts), value)
         ELSE (p :> Doc(Traverse(EmptyDoc, Tail(parts), value))) @@ sub

RECURSIVE DecodeProps(_, _)
DecodeProps(m, pl) ==
    IF pl = <<>> THEN m
    ELSE DecodeProps(Traverse(m, Head(pl).Name, Head(pl).Value), Tail(pl))

plistToMap(pl, id) == (idKey :> Int64(id)) @@ DecodeProps(EmptyDoc, pl)

\* ------------------------------------------------------------------ state
VARIABLES
    store,           \* datastore: storage kind -> (id -> stored PropertyList)
    nextID,          \* datastore: the id the next incomplete key gets, per kind
    now,             \* the last value nowFunc().Unix() returned
    writes,          \* backend mutations so far (bounds the run)
    req,             \* the request handle() served last
    op,              \* the API method handle() dispatched it to ("idle": none)
    status,          \* HTTP status of the response
    resp,            \* response Document of insert/get/update (EmptyDoc: no body)
    items,           \* "items" of a list response
    nextStartToken,  \* "nextStartToken" of a list response
    written,         \* history: storage kind -> (id -> the request that Put it last)
    gone,            \* history: keys a Delete removed and no Put has written since
    cstep,           \* codec run: "start", "encoded"/"given", "roundtrip"/"decoded"
    cdoc,            \* codec run: the Document given to mapToPlist
    cpl,             \* codec run: the PropertyList given to plistToMap
    cid,             \* codec run: the id given to plistToMap
    cout,            \* codec run: the Document plistToMap returned
    pstep,           \* paging client: "off", "paging", "end"
    pquery,          \* paging client: the limit and sort of every call
    ptoken,          \* paging client: the nextStartToken it got last
    pacc,            \* paging client: the items it has got, in order
    rpc,             \* concurrent updates: where each handler is ("off": no run)
    rreq,            \* concurrent updates: the request each handler serves
    rdoc,            \* concurrent updates: each handler's map m
    rpl,             \* concurrent updates: each handler's PropertyList pl
    rstatus          \* concurrent updates: the status each handler returned

server == <<store, nextID, now, writes, req, op, status, resp, items, nextStartToken,
            written, gone>>
codec == <<cstep, cdoc, cpl, cid, cout>>
pager == <<pstep, pquery, ptoken, pacc>>
racer == <<rpc, rreq, rdoc, rpl, rstatus>>
vars == <<server, codec, pager, racer>>

\* --------------------------------------------------------------- requests
Identities == {"u1", "u2"}
Kinds == {"contact"}
Ids == 1..MaxId

\* Mutant of StorageKind: the storage kind leaves the tenant out.
StorageKindShared(userID, kind) == kind

\* handle, line 136: dsKind := fmt.Sprintf("%s--%s", userID, kind)
StorageKind(userID, kind) == userID \o "--" \o kind

DsKinds == {StorageKind(u, k) : u \in Identities, k \in Kinds}

\* getKindAndID for the paths /{kind} (hasID = FALSE) and /{kind}/{id}.
getKindAndID(path) == [kind |-> path.kind, id |-> IF path.hasID THEN path.id ELSE 0]

CollectionPaths == [kind : Kinds, hasID : {FALSE}, id : {0}]
EntityPaths == [kind : Kinds, hasID : {TRUE}, id : Ids]
Paths == CollectionPaths \cup EntityPaths
\* /{kind}/0: ParseInt accepts "0", and getKindAndID returns the id 0.
ZeroPaths == [kind : Kinds, hasID : {TRUE}, id : {0}]

name == <<"name">>
tags == <<"tags">>

\* JSON bodies a caller posts.
Bodies ==
    { (name :> Scalar(1)),
      (tags :> Array(<<Scalar(1), Scalar(2)>>)),
      (tags :> Array(<<>>)),
      (idKey :> Scalar(2)) @@ (createdKey :> Scalar(2)) }

\* Cursor tokens: "" (EmptyToken), a string DecodeCursor rejects (BadToken),
\* or the encoding of the position after the row with sort value v and key id.
EmptyToken == [k |-> "empty", v |-> 0, id |-> 0]
BadToken == [k |-> "bad", v |-> 0, id |-> 0]
CursorToken(v, id) == [k |-> "cursor", v |-> v, id |-> id]

NoLimit == [present |-> FALSE, n |-> 0]
Limit(n) == [present |-> TRUE, n |-> n]
Form(limit, start, end, sort, where) ==
    [limit |-> limit, start |-> start, end |-> end, sort |-> sort, where |-> where]
NoForm == Form(NoLimit, EmptyToken, EmptyToken, <<>>, <<>>)
NoIterErr == [call |-> "none", n |-> 0]

\* The query strings of the list requests: one parameter varied at a time
\* (limit=0 and limit=-1 among them), a limit together with a start token (a
\* pagination step), and tokens that do not decode next to a limit or a sort.
Forms ==
    {Form(Limit(n), EmptyToken, EmptyToken, <<>>, <<>>) : n \in -1..MaxLimit}
    \cup {Form(Limit(1), BadToken, EmptyToken, <<>>, <<>>),
          Form(NoLimit, BadToken, BadToken, name, <<>>)}
    \cup {Form(NoLimit, t, EmptyToken, <<>>, <<>>) :
            t \in {EmptyToken, BadToken} \cup {CursorToken(0, i) : i \in Ids}}
    \cup {Form(NoLimit, EmptyToken, t, <<>>, <<>>) : t \in {BadToken, CursorToken(0, 1)}}
    \cup {Form(Limit(1), CursorToken(0, 1), EmptyToken, <<>>, <<>>)}
    \cup {Form(NoLimit, EmptyToken, EmptyToken, name, <<>>)}
    \cup {Form(NoLimit, EmptyToken, EmptyToken, <<>>, <<[Key |-> name, Value |-> 1]>>)}

\* The backend failures injected into one list call: the n-th t.Next or the
\* n-th t.Cursor returns an error.
IterErrs == [call : {"next"}, n : 1..(MaxId + 1)] \cup [call : {"cursor"}, n : 1..MaxId]

\* A request whose credential resolves to userID (on the development server:
\* whose user_id parameter is userID).
Request(method, userID, path, body, badJSON, backendErr, form, iterErr) ==
    [method |-> method, userID |-> userID, auth |-> "ok", path |-> path, body |-> body,
     badJSON |-> badJSON, backendErr |-> backendErr, form |-> form, iterErr |-> iterErr]

\* handle lines 109-127, on the production server.  The credential of a
\* request: "ok" resolves to the request's userID; "missing" is no
\* access_token parameter and no Bearer header; with "fetchFails" the call to
\* the provider returns an error, with "badReply" its answer does not decode
\* (what the provider sends for an invalid or expired token is an error
\* document without an id: "emptyID").
FailedCredentials == {"missing", "fetchFails", "badReply", "emptyID"}
Unauthenticated(r, auth) == [r EXCEPT !.userID = "", !.auth = auth]

\* getUserID, lines 54-71: the user id and whether err is non-nil.
getUserID(r) ==
    IF r.auth = "ok" THEN [id |-> r.userID, err |-> FALSE] ELSE [id |-> "", err |-> TRUE]

\* No request is being served.
NoRequest == Request("", "", [kind |-> "", hasID |-> FALSE, id |-> 0], EmptyDoc, FALSE, FALSE,
                     NoForm, NoIterErr)

\* POST with a well-formed body, with a body that is not JSON, and with a
\* backend that fails the Put.
PostRequests ==
    {Request("POST", u, p, b, FALSE, FALSE, NoForm, NoIterErr) :
        u \in Identities, p \in Paths, b \in Bodies}
    \cup {Request("POST", u, p, EmptyDoc, TRUE, FALSE, NoForm, NoIterErr) :
        u \in Identities, p \in Paths}
    \cup {Request("POST", u, p, (name :> Scalar(1)), FALSE, TRUE, NoForm, NoIterErr) :
        u \in Identities, p \in Paths}
    \cup {Request("POST", u, p, (name :> Scalar(1)), FALSE, FALSE, NoForm, NoIterErr) :
        u \in Identities, p \in ZeroPaths}
\* GET and DELETE of /{kind}/{id}, with and without a backend failure.
EntityRequests ==
    {Request(m, u, p, EmptyDoc, FALSE, err, NoForm, NoIterErr) :
        m \in {"GET", "DELETE"}, u \in Identities, p \in EntityPaths, err \in BOOLEAN}
\* GET of /{kind}.
ListRequests ==
    {Request("GET", u, p, EmptyDoc, FALSE, FALSE, f, NoIterErr) :
        u \in Identities, p \in CollectionPaths, f \in Forms}
    \cup {Request("GET", u, p, EmptyDoc, FALSE, FALSE, NoForm, e) :
        u \in Identities, p \in CollectionPaths, e \in IterErrs}
    \cup {Request("GET", u, p, EmptyDoc, FALSE, FALSE, NoForm, NoIterErr) :
        u \in Identities, p \in ZeroPaths}
\* Requests of every kind whose credential does not resolve.
AuthRequests ==
    {Unauthenticated(Request(m, "", p, b, FALSE, FALSE, NoForm, NoIterErr), a) :
        m \in {"GET", "POST", "DELETE"}, p \in Paths, b \in {(name :> Scalar(1))},
        a \in FailedCredentials}
\* Methods handle does not support at the path.
OtherRequests ==
    {Request("PUT", u, p, EmptyDoc, FALSE, FALSE, NoForm, NoIterErr) : u \in Identities, p \in Paths}
    \cup {Request("DELETE", u, p, EmptyDoc, FALSE, FALSE, NoForm, NoIterErr) :
            u \in Identities, p \in CollectionPaths \cup ZeroPaths}

\* ---------------------------------------------------------------- datastore
\* Mutant of Put: the new properties are merged into the stored ones.
PutMerge(st, kind, id, pl) ==
    LET named(p) == \E i \in 1..Len(pl) : pl[i].Name = p.Name
        kept == IF id \in DOMAIN st[kind] THEN SelectSeq(st[kind][id], LAMBDA p : ~named(p))
                ELSE <<>>
    IN [st EXCEPT ![kind] = (id :> (kept \o pl)) @@ @]

\* Mutant of Remove: the entity stays.
RemoveKeeps(st, kind, id) == st

\* datastore.Put on a complete key writes the whole entity, creating it if
\* the key holds none; datastore.Delete removes it.
Put(st, kind, id, pl) == [st EXCEPT ![kind] = (id :> pl) @@ @]
Remove(st, kind, id) == [st EXCEPT ![kind] = [i \in DOMAIN @ \ {id} |-> @[i]]]

\* History of a key: who Put it last, with which body and clock reading, the
\* time the insert that created it stamped (0: none did), and the operation
\* that made it present.
Record(r, kind, id, opName, t) ==
    LET was == id \in DOMAIN store[kind]
        entry == [userID |-> r.userID, kind |-> getKindAndID(r.path).kind, op |-> opName,
                  body |-> r.body, at |-> t,
                  created |-> IF opName = "insert" THEN t
                              ELSE IF was THEN written[kind][id].created ELSE 0,
                  madeBy |-> IF was THEN written[kind][id].madeBy ELSE opName]
    IN /\ written' = [written EXCEPT ![kind] = (id :> entry) @@ @]
       /\ gone' = gone \ {<<kind, id>>}
Forget(kind, id) ==
    /\ written' = [written EXCEPT ![kind] = [i \in DOMAIN @ \ {id} |-> @[i]]]
    /\ gone' = gone \cup {<<kind, id>>}

\* What the response carries when handle writes no body.
NoBody == /\ resp' = EmptyDoc
          /\ items' = <<>>
          /\ nextStartToken' = EmptyToken

\* ------------------------------------------------------------------ insert
\* POST /{kind}: handle lines 140-144 and insert lines 236-253.
insert(r) ==
    LET kind == StorageKind(r.userID, getKindAndID(r.path).kind)
        id == nextID[kind]
    IN /\ op = "idle"
       /\ ~getUserID(r).err
       /\ r.method = "POST"
       /\ getKindAndID(r.path).id = 0
       /\ req' = r
       /\ op' = "insert"
       /\ IF r.badJSON
          THEN /\ status' = 500
               /\ NoBody
               /\ UNCHANGED <<store, nextID, now, writes, written, gone>>
          ELSE \E t \in now..MaxTime :
                 LET m == (createdKey :> Int64(t)) @@ r.body IN
                 /\ now' = t
                 /\ \E pl \in mapToPlist(<<>>, m) :
                      IF r.backendErr
                      THEN /\ status' = 500
                           /\ NoBody
                           /\ UNCHANGED <<store, nextID, writes, written, gone>>
                      ELSE /\ id <= MaxId
                           /\ writes < MaxWrites
                           /\ writes' = writes + 1
                           /\ store' = Put(store, kind, id, pl)
                           /\ nextID' = [nextID EXCEPT ![kind] = id + 1]
                           /\ Record(r, kind, id, "insert", t)
                           /\ status' = 200
                           /\ resp' = (idKey :> Int64(id)) @@ m
                           /\ items' = <<>>
                           /\ nextStartToken' = EmptyToken

\* ------------------------------------------------------------------ update
\* Mutant of update: the error of fromJSON is not looked at, and the map the
\* decoder left (empty) is stamped and Put.
updateNoErrCheck(r) ==
    LET kind == StorageKind(r.userID, getKindAndID(r.path).kind)
        id == getKindAndID(r.path).id
    IN /\ op = "idle"
       /\ ~getUserID(r).err
       /\ r.method = "POST"
       /\ id # 0
       /\ req' = r
       /\ op' = "update"
       /\ UNCHANGED nextID
       /\ \E t \in now..MaxTime :
            LET m == (updatedKey :> Int64(t)) @@
                     [k \in DOMAIN r.body \ {createdKey, idKey} |-> r.body[k]] IN
            /\ now' = t
            /\ \E pl \in mapToPlist(<<>>, m) :
                 IF r.backendErr
                 THEN /\ status' = 500
                      /\ NoBody
                      /\ UNCHANGED <<store, writes, written, gone>>
                 ELSE /\ writes < MaxWrites
                      /\ writes' = writes + 1
                      /\ store' = Put(store, kind, id, pl)
                      /\ Record(r, kind, id, "update", t)
                      /\ status' = 200
                      /\ resp' = (idKey :> Int64(id)) @@ m
                      /\ items' = <<>>
                      /\ nextStartToken' = EmptyToken

\* POST /{kind}/{id}: handle lines 162-165 and update lines 373-393.
update(r) ==
    LET kind == StorageKind(r.userID, getKindAndID(r.path).kind)
        id == getKindAndID(r.path).id
    IN /\ op = "idle"
       /\ ~getUserID(r).err
       /\ r.method = "POST"
       /\ id # 0
       /\ req' = r
       /\ op' = "update"
       /\ UNCHANGED nextID
       /\ IF r.badJSON
          THEN /\ status' = 500
               /\ NoBody
               /\ UNCHANGED <<store, now, writes, written, gone>>
          ELSE \E t \in now..MaxTime :
                 LET m == (updatedKey :> Int64(t)) @@
                          [k \in DOMAIN r.body \ {createdKey, idKey} |-> r.body[k]] IN
                 /\ now' = t
                 /\ \E pl \in mapToPlist(<<>>, m) :
                      IF r.backendErr
                      THEN /\ status' = 500
                           /\ NoBody
                           /\ UNCHANGED <<store, writes, written, gone>>
                      ELSE /\ writes < MaxWrites
                           /\ writes' = writes + 1
                           /\ store' = Put(store, kind, id, pl)
                           /\ Record(r, kind, id, "update", t)
                           /\ status' = 200
                           /\ resp' = (idKey :> Int64(id)) @@ m
                           /\ items' = <<>>
                           /\ nextStartToken' = EmptyToken

\* ----------------------------------------------------------------- delete2
\* DELETE /{kind}/{id}: handle lines 160-161 and delete2 lines 208-219.
delete2(r) ==
    LET kind == StorageKind(r.userID, getKindAndID(r.path).kind)
        id == getKindAndID(r.path).id
    IN /\ op = "idle"
       /\ ~getUserID(r).err
       /\ r.method = "DELETE"
       /\ id # 0
       /\ req' = r
       /\ op' = "delete"
       /\ NoBody
       /\ UNCHANGED <<now, nextID>>
       /\ IF r.backendErr
          THEN /\ status' = 500
               /\ UNCHANGED <<store, writes, written, gone>>
          ELSE IF id \notin DOMAIN store[kind]
          THEN /\ status' = 404
               /\ UNCHANGED <<store, writes, written, gone>>
          ELSE /\ writes < MaxWrites
               /\ writes' = writes + 1
               /\ status' = 200
               /\ store' = Remove(store, kind, id)
               /\ Forget(kind, id)

\* --------------------------------------------------------------------- get
\* Mutant of get: the entity read is stored again with its id as a property.
getWritesBack(r) ==
    LET kind == StorageKind(r.userID, getKindAndID(r.path).kind)
        id == getKindAndID(r.path).id
    IN /\ op = "idle"
       /\ ~getUserID(r).err
       /\ r.method = "GET"
       /\ id # 0
       /\ req' = r
       /\ op' = "get"
       /\ items' = <<>>
       /\ nextStartToken' = EmptyToken
       /\ UNCHANGED <<nextID, now, writes, written, gone>>
       /\ IF r.backendErr
          THEN status' = 500 /\ resp' = EmptyDoc /\ store' = store
          ELSE IF id \notin DOMAIN store[kind]
          THEN status' = 404 /\ resp' = EmptyDoc /\ store' = store
          ELSE /\ status' = 200
               /\ resp' = (idKey :> Int64(id)) @@ plistToMap(store[kind][id], id)
               /\ store' = Put(store, kind, id,
                               Append(store[kind][id], Property(idKey, Int64(id), FALSE)))

\* GET /{kind}/{id}: handle lines 158-159 and get lines 221-234.
get(r) ==
    LET kind == StorageKind(r.userID, getKindAndID(r.path).kind)
        id == getKindAndID(r.path).id
    IN /\ op = "idle"
       /\ ~getUserID(r).err
       /\ r.method = "GET"
       /\ id # 0
       /\ req' = r
       /\ op' = "get"
       /\ items' = <<>>
       /\ nextStartToken' = EmptyToken
       /\ UNCHANGED <<store, nextID, now, writes, written, gone>>
       /\ IF r.backendErr
          THEN status' = 500 /\ resp' = EmptyDoc
          ELSE IF id \notin DOMAIN store[kind]
          THEN status' = 404 /\ resp' = EmptyDoc
          ELSE /\ status' = 200
               /\ resp' = (idKey :> Int64(id)) @@ plistToMap(store[kind][id], id)

\* -------------------------------------------------------------------- list
\* newUserQuery, lines 184-206, for a numeric or absent limit and
\* well-formed where parameters.
newUserQuery(form) ==
    [Limit |-> IF form.limit.present THEN form.limit.n ELSE 0,
     StartCursor |-> form.start, EndCursor |-> form.end, Sort |-> form.sort,
     Filters |-> form.where]

\* Mutant of DecodeCursorFails: the error of DecodeCursor is not looked at, and
\* the cursor it returned with the error (the zero position) is used.
DecodeCursorNeverFails(token) == FALSE

\* datastore.DecodeCursor: "" decodes to the zero cursor, which bounds nothing.
DecodeCursorFails(token) == token.k = "bad"

\* The values an entity holds under a property name.
ValuesOf(pl, field) == {pl[i].Value.s : i \in {j \in 1..Len(pl) : pl[j].Name = field}}
Min(S) == CHOOSE x \in S : \A y \in S : x <= y

\* Position of a row in the query's order: its sort value, then its key.
RowPos(kind, id, sort) ==
    <<IF sort = <<>> THEN 0 ELSE Min(ValuesOf(store[kind][id], sort)), id>>
\* Mutant of Before: a position also counts as before itself, so that a start
\* cursor lets the row it was taken at through again.
BeforeOrAt(p, q) == p[1] < q[1] \/ (p[1] = q[1] /\ p[2] <= q[2])

Before(p, q) == p[1] < q[1] \/ (p[1] = q[1] /\ p[2] < q[2])

\* The keys the query yields, in order: lines 327-344 applied to the store.
\* An Order drops the entities without the property; a cursor that decodes
\* bounds the rows, one that does not is ignored.  Limit is called for a
\* limit other than 0 only, and to the datastore a negative limit means
\* unlimited, as does the limit of a new query.
QueryRows(kind, uq) ==
    LET matching == {id \in DOMAIN store[kind] :
                        uq.Sort = <<>> \/ ValuesOf(store[kind][id], uq.Sort) # {}}
        pos(id) == RowPos(kind, id, uq.Sort)
        afterStart == {id \in matching :
                        \/ DecodeCursorFails(uq.StartCursor)
                        \/ uq.StartCursor.k = "empty"
                        \/ Before(<<uq.StartCursor.v, uq.StartCursor.id>>, pos(id))}
        bounded == {id \in afterStart :
                        \/ DecodeCursorFails(uq.EndCursor)
                        \/ uq.EndCursor.k = "empty"
                        \/ ~Before(<<uq.EndCursor.v, uq.EndCursor.id>>, pos(id))}
        ordered == CHOOSE f \in Perms(bounded) :
                        \A i, j \in 1..Len(f) : i < j => Before(pos(f[i]), pos(f[j]))
    IN IF uq.Limit > 0 /\ uq.Limit < Len(ordered) THEN SubSeq(ordered, 1, uq.Limit)
       ELSE ordered

\* The error the built query carries to the first t.Next: Filter rejects a
\* filter string without an operator, which is what list passes it (f.Key
\* alone).
QueryErr(uq) == uq.Filters # <<>>

RECURSIVE iteratePartial(_, _, _, _, _, _)
\* Mutant of iterate: an iterator error ends the loop and the rows decoded so
\* far are returned.
iteratePartial(kind, rows, i, acc, crs, iterErr) ==
    IF (iterErr.call = "next" /\ iterErr.n = i) \/ rows = <<>>
       \/ (iterErr.call = "cursor" /\ iterErr.n = i)
    THEN [status |-> 200, items |-> acc, token |-> crs]
    ELSE iteratePartial(kind, Tail(rows), i + 1,
                        Append(acc, plistToMap(store[kind][rows[1].id], rows[1].id)),
                        CursorToken(rows[1].pos[1], rows[1].pos[2]), iterErr)

RECURSIVE iterate(_, _, _, _, _, _)
\* The loop of lines 349-365 from its i-th round on: rows are the keys the
\* iterator has yet to yield, acc the items and crs the cursor so far.  A
\* failing t.Next or t.Cursor ends the call with a 500 and nothing else.
iterate(kind, rows, i, acc, crs, iterErr) ==
    IF iterErr.call = "next" /\ iterErr.n = i
    THEN [status |-> 500, items |-> <<>>, token |-> EmptyToken]
    ELSE IF rows = <<>>
    THEN [status |-> 200, items |-> acc, token |-> crs]
    ELSE IF iterErr.call = "cursor" /\ iterErr.n = i
    THEN [status |-> 500, items |-> <<>>, token |-> EmptyToken]
    ELSE iterate(kind, Tail(rows), i + 1,
                 Append(acc, plistToMap(store[kind][rows[1].id], rows[1].id)),
                 CursorToken(rows[1].pos[1], rows[1].pos[2]), iterErr)

\* The rows t.Next yields one after the other: key and position.
Rows(kind, uq) ==
    LET ids == QueryRows(kind, uq)
    IN [i \in 1..Len(ids) |-> [id |-> ids[i], pos |-> RowPos(kind, ids[i], uq.Sort)]]

\* list, lines 326-371, for a userQuery: what it returns to handle.
runQuery(kind, uq, iterErr) ==
    IF QueryErr(uq) THEN [status |-> 500, items |-> <<>>, token |-> EmptyToken]
    ELSE iterate(kind, Rows(kind, uq), 1, <<>>, EmptyToken, iterErr)

\* GET /{kind}: handle lines 145-151 and list lines 326-371.
list(r) ==
    LET kind == StorageKind(r.userID, getKindAndID(r.path).kind)
        uq == newUserQuery(r.form)
        rows == Rows(kind, uq)
        out == runQuery(kind, uq, r.iterErr)
    IN /\ op = "idle"
       /\ ~getUserID(r).err
       /\ r.method = "GET"
       /\ getKindAndID(r.path).id = 0
       /\ r.iterErr.call = "next" => r.iterErr.n <= Len(rows) + 1
       /\ r.iterErr.call = "cursor" => r.iterErr.n <= Len(rows)
       /\ req' = r
       /\ op' = "list"
       /\ resp' = EmptyDoc
       /\ status' = out.status
       /\ items' = out.items
       /\ nextStartToken' = out.token
       /\ UNCHANGED <<store, nextID, now, writes, written, gone>>

\* handle lines 118-127: without an access token the answer is 401, and when
\* getUserID returns an error it is 500; handle returns before it reads the
\* path or calls the datastore.
unauthenticated(r) ==
    /\ op = "idle"
    /\ r.auth = "missing" \/ getUserID(r).err
    /\ req' = r
    /\ op' = "none"
    /\ status' = IF r.auth = "missing" THEN 401 ELSE 500
    /\ NoBody
    /\ UNCHANGED <<store, nextID, now, writes, written, gone>>

\* handle lines 152-154 and 166-168: any other method at either path shape.
unsupported(r) ==
    /\ op = "idle"
    /\ ~getUserID(r).err
    /\ \/ getKindAndID(r.path).id = 0 /\ r.method \notin {"POST", "GET"}
       \/ getKindAndID(r.path).id # 0 /\ r.method \notin {"GET", "DELETE", "POST"}
    /\ req' = r
    /\ op' = "none"
    /\ status' = 405
    /\ NoBody
    /\ UNCHANGED <<store, nextID, now, writes, written, gone>>

\* handle returns (line 182): the response is out and the request is over.
done ==
    /\ op # "idle"
    /\ req' = NoRequest
    /\ op' = "idle"
    /\ status' = 0
    /\ NoBody
    /\ UNCHANGED <<store, nextID, now, writes, written, gone>>

\* No codec run and no paging client.
CodecOff == cstep = "off" /\ cdoc = EmptyDoc /\ cpl = <<>> /\ cid = 0 /\ cout = EmptyDoc
PagerOff == /\ pstep = "off"
            /\ pquery = [limit |-> 0, sort |-> <<>>]
            /\ ptoken = EmptyToken
            /\ pacc = <<>>

ServerInit ==
    /\ store = [k \in DsKinds |-> <<>>]
    /\ nextID = [k \in DsKinds |-> 1]
    /\ now = 1
    /\ writes = 0
    /\ req = NoRequest
    /\ op = "idle"
    /\ status = 0
    /\ resp = EmptyDoc
    /\ items = <<>>
    /\ nextStartToken = EmptyToken
    /\ written = [k \in DsKinds |-> <<>>]
    /\ gone = {}

RaceOff == rpc = <<>> /\ rreq = <<>> /\ rdoc = <<>> /\ rpl = <<>> /\ rstatus = <<>>

Init == ServerInit /\ CodecOff /\ PagerOff /\ RaceOff

Next ==
    \/ \E r \in PostRequests : insert(r) /\ UNCHANGED <<codec, pager, racer>>
    \/ \E r \in PostRequests : update(r) /\ UNCHANGED <<codec, pager, racer>>
    \/ \E r \in EntityRequests : delete2(r) /\ UNCHANGED <<codec, pager, racer>>
    \/ \E r \in EntityRequests : get(r) /\ UNCHANGED <<codec, pager, racer>>
    \/ \E r \in ListRequests : list(r) /\ UNCHANGED <<codec, pager, racer>>
    \/ \E r \in OtherRequests : unsupported(r) /\ UNCHANGED <<codec, pager, racer>>
    \/ \E r \in AuthRequests : unauthenticated(r) /\ UNCHANGED <<codec, pager, racer>>
    \/ done /\ UNCHANGED <<codec, pager, racer>>

Spec == Init /\ [][Next]_vars

\* ------------------------------------------------------------- codec runs
\* The two codec functions applied to generated inputs: a Document is encoded
\* and the list decoded again, or a property list as the datastore may hold
\* it is decoded.
Scalars == {Scalar(x) : x \in 1..MaxScalar}
SeqsUpTo(S, n) == UNION {[1..k -> S] : k \in 0..n}
Leaves == Scalars \cup {Array(xs) : xs \in SeqsUpTo(Scalars, MaxArrayLen)}
MapsOver(keys, values) == UNION {[ks -> values] : ks \in SUBSET keys}
InnerDocs == MapsOver({<<"b">>}, Leaves)
Documents ==
    {top @@ rest : top \in MapsOver({<<"a">>}, Leaves \cup {Doc(m) : m \in InnerDocs}),
                   rest \in MapsOver({<<"a", "b">>, idKey}, Scalars \cup {Array(<<>>)})}

Segments == {"a", "b"}
Names == UNION {[1..k -> Segments] : k \in 1..MaxPathLen}
Properties == {Property(n, v, FALSE) : n \in Names, v \in Scalars}

encode ==
    /\ cstep = "start"
    /\ \E d \in Documents :
         /\ cdoc' = d
         /\ \E pl \in mapToPlist(<<>>, d) : cpl' = pl
    /\ \E id \in Ids : cid' = id
    /\ cstep' = "encoded"
    /\ UNCHANGED <<cout, server, pager, racer>>

given ==
    /\ cstep = "start"
    /\ \E k \in 0..MaxPlistLen : \E pl \in [1..k -> Properties] : cpl' = pl
    /\ cid' = 1
    /\ cstep' = "given"
    /\ UNCHANGED <<cdoc, cout, server, pager, racer>>

decode ==
    /\ cstep \in {"encoded", "given"}
    /\ cout' = plistToMap(cpl, cid)
    /\ cstep' = IF cstep = "encoded" THEN "roundtrip" ELSE "decoded"
    /\ UNCHANGED <<cdoc, cpl, cid, server, pager, racer>>

CodecInit ==
    /\ ServerInit
    /\ PagerOff
    /\ RaceOff
    /\ cstep = "start"
    /\ cdoc = EmptyDoc
    /\ cpl = <<>>
    /\ cid = 0
    /\ cout = EmptyDoc

CodecNext == encode \/ given \/ decode

CodecSpec == CodecInit /\ [][CodecNext]_vars

\* ---------------------------------------------------------- paging client
\* A client reads a kind to its end: every call has the same limit and sort
\* and starts at the token the call before returned; nothing writes meanwhile.
PageUser == "u1"
PageKind == StorageKind(PageUser, "contact")
PageBodies == {(name :> Scalar(1)), (name :> Scalar(2)), (tags :> Array(<<Scalar(1), Scalar(2)>>))}
\* What insert has stored for a body, with the body.
PageEntities ==
    UNION {{[pl |-> pl, body |-> b] : pl \in mapToPlist(<<>>, (createdKey :> Int64(1)) @@ b)} :
            b \in PageBodies}

\* The kind holds the entities that are left of MaxRows inserts.
PageInit ==
    /\ CodecOff
    /\ RaceOff
    /\ \E D \in SUBSET (1..MaxRows) : \E e \in [D -> PageEntities] :
         /\ store = [k \in DsKinds |-> IF k = PageKind THEN [i \in D |-> e[i].pl] ELSE <<>>]
         /\ written = [k \in DsKinds |->
                         IF k = PageKind
                         THEN [i \in D |-> [userID |-> PageUser, kind |-> "contact",
                                            op |-> "insert", body |-> e[i].body, at |-> 1,
                                            created |-> 1, madeBy |-> "insert"]]
                         ELSE <<>>]
         /\ gone = {<<PageKind, i>> : i \in (1..MaxRows) \ D}
    /\ nextID = [k \in DsKinds |-> IF k = PageKind THEN MaxRows + 1 ELSE 1]
    /\ now = 1
    /\ writes = 0
    /\ req = NoRequest
    /\ op = "idle"
    /\ status = 0
    /\ resp = EmptyDoc
    /\ items = <<>>
    /\ nextStartToken = EmptyToken
    /\ pstep = "paging"
    /\ pquery \in [limit : 1..MaxLimit, sort : {<<>>, name}]
    /\ ptoken = EmptyToken
    /\ pacc = <<>>

\* The client's next call.
page ==
    /\ pstep = "paging"
    /\ list(Request("GET", PageUser, [kind |-> "contact", hasID |-> FALSE, id |-> 0], EmptyDoc,
                    FALSE, FALSE,
                    Form(Limit(pquery.limit), ptoken, EmptyToken, pquery.sort, <<>>),
                    NoIterErr))
    /\ UNCHANGED <<codec, pager, racer>>

\* The client takes the response: it keeps the items and the token, and is
\* at the end once a call returns no item.
turn ==
    /\ op = "list"
    /\ done
    /\ pacc' = pacc \o items
    /\ ptoken' = nextStartToken
    /\ pstep' = IF items = <<>> THEN "end" ELSE "paging"
    /\ UNCHANGED <<pquery, codec, racer>>

PageNext == page \/ turn

PageSpec == PageInit /\ [][PageNext]_vars

\* ------------------------------------------------------- concurrent updates
\* Two requests POST /{kind}/{id} for one identity, kind and id are served at
\* the same time.  Each handler runs update (lines 373-393) in two steps: it
\* builds m and pl from its own body (lines 376-384), which touches nothing
\* shared but the clock, and it calls datastore.Put (lines 386-392), which
\* the datastore applies to the entity as a whole.
Procs == {1, 2}
RaceUser == "u1"
RacePath == [kind |-> "contact", hasID |-> TRUE, id |-> 1]
RaceKind == StorageKind(RaceUser, RacePath.kind)
RaceRequests == {r \in PostRequests : r.userID = RaceUser /\ r.path = RacePath}

\* The entity is absent, or holds what an insert or an update has stored.
RaceInit ==
    /\ CodecOff
    /\ PagerOff
    /\ \E e \in {<<>>} \cup {<<pl>> : pl \in UNION {mapToPlist(<<>>, (createdKey :> Int64(1)) @@ b) :
                                                    b \in PageBodies}} :
         /\ store = [k \in DsKinds |->
                        IF k = RaceKind /\ e # <<>> THEN (RacePath.id :> e[1]) ELSE <<>>]
         /\ written = [k \in DsKinds |->
                         IF k = RaceKind /\ e # <<>>
                         THEN (RacePath.id :> [userID |-> RaceUser, kind |-> RacePath.kind,
                                               op |-> "insert", body |-> EmptyDoc, at |-> 1,
                                               created |-> 1, madeBy |-> "insert"])
                         ELSE <<>>]
    /\ gone = {}
    /\ nextID = [k \in DsKinds |-> IF k = RaceKind THEN RacePath.id + 1 ELSE 1]
    /\ now = 1
    /\ writes = 0
    /\ req = NoRequest
    /\ op = "idle"
    /\ status = 0
    /\ resp = EmptyDoc
    /\ items = <<>>
    /\ nextStartToken = EmptyToken
    /\ rreq \in [Procs -> RaceRequests]
    /\ rpc = [p \in Procs |-> "start"]
    /\ rdoc = [p \in Procs |-> EmptyDoc]
    /\ rpl = [p \in Procs |-> <<>>]
    /\ rstatus = [p \in Procs |-> 0]

\* update lines 376-384 in handler p.
updateEncode(p) ==
    /\ rpc[p] = "start"
    /\ IF rreq[p].badJSON
       THEN /\ rstatus' = [rstatus EXCEPT ![p] = 500]
            /\ rpc' = [rpc EXCEPT ![p] = "done"]
            /\ UNCHANGED <<now, rdoc, rpl>>
       ELSE \E t \in now..MaxTime :
              LET m == (updatedKey :> Int64(t)) @@
                       [k \in DOMAIN rreq[p].body \ {createdKey, idKey} |-> rreq[p].body[k]] IN
              /\ now' = t
              /\ rdoc' = [rdoc EXCEPT ![p] = m]
              /\ \E pl \in mapToPlist(<<>>, m) : rpl' = [rpl EXCEPT ![p] = pl]
              /\ rpc' = [rpc EXCEPT ![p] = "encoded"]
              /\ UNCHANGED rstatus
    /\ UNCHANGED <<store, nextID, writes, req, op, status, resp, items, nextStartToken,
                   written, gone, rreq, codec, pager>>

\* update lines 386-392 in handler p.
updatePut(p) ==
    /\ rpc[p] = "encoded"
    /\ rpc' = [rpc EXCEPT ![p] = "done"]
    /\ IF rreq[p].backendErr
       THEN /\ rstatus' = [rstatus EXCEPT ![p] = 500]
            /\ UNCHANGED <<store, writes, written, gone>>
       ELSE /\ rstatus' = [rstatus EXCEPT ![p] = 200]
            /\ store' = Put(store, RaceKind, RacePath.id, rpl[p])
            /\ writes' = writes + 1
            /\ Record(rreq[p], RaceKind, RacePath.id, "update", rdoc[p][updatedKey].s)
    /\ UNCHANGED <<nextID, now, req, op, status, resp, items, nextStartToken,
                   rreq, rdoc, rpl, codec, pager>>

RaceNext == (\E p \in Procs : updateEncode(p)) \/ (\E p \in Procs : updatePut(p))

RaceSpec == RaceInit /\ [][RaceNext]_vars

\* ------------------------------------------------------------------ claims
ReqKind == StorageKind(req.userID, getKindAndID(req.path).kind)
ReqID == getKindAndID(req.path).id
Meta == {idKey, createdKey, updatedKey}
IsScalar(v) == v.t \in {"s", "n"}

RECURSIVE Lossless(_)
\* Documents the flat property representation holds without loss: no key
\* contains ".", every array has at least two elements, all scalars, and
\* every nested document is non-empty.
Lossless(d) ==
    \A k \in DOMAIN d :
        /\ Len(k) = 1
        /\ d[k].t = "a" => Len(d[k].a) >= 2 /\ \A i \in 1..Len(d[k].a) : IsScalar(d[k].a[i])
        /\ d[k].t = "d" => d[k].d # EmptyDoc /\ Lossless(d[k].d)

\* What update makes of a body: lines 380-382.
UpdateDoc(w) ==
    (updatedKey :> Int64(w.at)) @@ [k \in DOMAIN w.body \ {createdKey, idKey} |-> w.body[k]]

\* C1 (as amended): full replace.  When the entity a get returns was last
\* written by an update whose body the property representation holds without
\* loss, the get returns exactly the body's fields other than _id and
\* _created, plus _id and _updated, and every stored property belongs to one
\* of those fields: nothing stored before the update survives it.
C1_FullReplace ==
    (op = "get" /\ status = 200 /\ written[ReqKind][ReqID].op = "update"
        /\ Lossless(written[ReqKind][ReqID].body))
    => /\ resp = (idKey :> Int64(ReqID)) @@ UpdateDoc(written[ReqKind][ReqID])
       /\ \A i \in 1..Len(store[ReqKind][ReqID]) :
            <<store[ReqKind][ReqID][i].Name[1]>> \in DOMAIN UpdateDoc(written[ReqKind][ReqID])

\* C1 as stated: after any successful update, get returns exactly the fields
\* of the new body plus metadata.
C1_Original ==
    (op = "get" /\ status = 200 /\ written[ReqKind][ReqID].op = "update")
    => [k \in DOMAIN resp \ Meta |-> resp[k]]
         = [k \in DOMAIN written[ReqKind][ReqID].body \ Meta |-> written[ReqKind][ReqID].body[k]]

\* A get answers for an entity that an update replaced, and a field the
\* entity held before the update is not in the answer.
C1_Witness ==
    /\ op = "get" /\ status = 200
    /\ written[ReqKind][ReqID].op = "update"
    /\ written[ReqKind][ReqID].madeBy = "insert"
    /\ written[ReqKind][ReqID].body = (name :> Scalar(1))
    /\ tags \notin DOMAIN resp
    /\ name \in DOMAIN resp

\* C2: _created is immutable.  Every stored entity that an insert created
\* at time t0 carries the property _created = t0.
C2_CreatedPreserved ==
    \A k \in DsKinds : \A id \in DOMAIN store[k] :
        written[k][id].created # 0
        => \E i \in 1..Len(store[k][id]) :
              /\ store[k][id][i].Name = createdKey
              /\ store[k][id][i].Value = Int64(written[k][id].created)

\* C3: insert is the only operation that moves an entity from absent to
\* present: every present entity was made present by an insert.
C3_OnlyInsertCreates ==
    \A k \in DsKinds : \A id \in DOMAIN store[k] : written[k][id].madeBy = "insert"

\* C4: delete finality, for backend calls that do not fail otherwise.  A get
\* of a key that a delete removed (and nothing has written since) is answered
\* 404; a delete of an absent key is answered 404 and leaves the store as it
\* was.
C4_DeleteFinality ==
    [][ /\ (op' = "get" /\ ~req'.backendErr /\ <<ReqKind', ReqID'>> \in gone)
            => status' = 404
        /\ (op' = "delete" /\ ~req'.backendErr /\ ReqID' \notin DOMAIN store[ReqKind'])
            => (status' = 404 /\ store' = store) ]_vars

C4_Witness ==
    /\ op = "get" /\ ~req.backendErr
    /\ <<ReqKind, ReqID>> \in gone
    /\ status = 404

\* C5: tenant isolation on reads.  Whatever a get or a list returns under an
\* identity was Put under that identity, for the same logical kind.
C5_TenantIsolation ==
    LET mine(id) == (written[ReqKind][id].kind = getKindAndID(req.path).kind)
                        => written[ReqKind][id].userID = req.userID
    IN /\ (op = "get" /\ status = 200) => mine(ReqID)
       /\ (op = "list" /\ status = 200) => \A i \in 1..Len(items) : mine(items[i][idKey].s)

\* A get under one identity succeeds while the other identity holds an entity
\* of the same logical kind and id with other properties.
C5_Witness ==
    /\ op = "get" /\ status = 200 /\ req.userID = "u1"
    /\ ReqID \in DOMAIN store[StorageKind("u2", getKindAndID(req.path).kind)]
    /\ store[StorageKind("u2", getKindAndID(req.path).kind)][ReqID] # store[ReqKind][ReqID]
    /\ name \in DOMAIN resp

\* C9: list is all-or-nothing.  A list call in which t.Next or t.Cursor
\* failed is answered 500 with no items and no token, and a list answered
\* 200 holds every row of its query.
C9_ListAllOrNothing ==
    /\ (op = "list" /\ req.iterErr.call # "none")
        => (status = 500 /\ items = <<>> /\ nextStartToken = EmptyToken /\ resp = EmptyDoc)
    /\ (op = "list" /\ status = 200)
        => Len(items) = Len(QueryRows(ReqKind, newUserQuery(req.form)))

\* The iterator failed after at least one row had been decoded.
C9_Witness ==
    /\ op = "list" /\ req.iterErr.call # "none" /\ req.iterErr.n >= 2
    /\ store[ReqKind] # <<>>
    /\ status = 500

\* C10: reserved keys are never trusted from input.  A stored _id is the
\* key's id, a stored _created is the time insert stamped, and the response
\* of an insert or update carries the key's id.
C10_ReservedKeysNotTrusted ==
    /\ \A k \in DsKinds : \A id \in DOMAIN store[k] : \A i \in 1..Len(store[k][id]) :
          /\ store[k][id][i].Name = idKey => store[k][id][i].Value = Int64(id)
          /\ store[k][id][i].Name = createdKey
                => (written[k][id].created # 0
                    /\ store[k][id][i].Value = Int64(written[k][id].created))
    /\ (op = "insert" /\ status = 200)
        => (resp[idKey] = Int64(nextID[ReqKind] - 1) /\ resp[createdKey] = Int64(now))
    /\ (op = "update" /\ status = 200)
        => (resp[idKey] = Int64(ReqID) /\ createdKey \notin DOMAIN resp)

\* C11: authentication failures map to 401.  Every request whose credential
\* is missing or does not resolve to a user id is answered 401, and the
\* datastore is as it was.
C11_AuthFailuresAre401 ==
    [][(op' # "idle" /\ req'.auth # "ok")
        => (status' = 401 /\ store' = store /\ nextID' = nextID)]_vars

\* The query string without the tokens that do not decode.
OmitBadTokens(form) ==
    [form EXCEPT !.start = IF @ = BadToken THEN EmptyToken ELSE @,
                 !.end = IF @ = BadToken THEN EmptyToken ELSE @]

\* C12: permissive cursor decode.  A list call with a start or end token that
\* does not decode, and no backend failure, is answered 200 with exactly the
\* items (and the token) of the same query with that token left out.
C12_PermissiveCursor ==
    (op = "list" /\ req.iterErr = NoIterErr
        /\ (req.form.start = BadToken \/ req.form.end = BadToken))
    => /\ status = 200
       /\ items = runQuery(ReqKind, newUserQuery(OmitBadTokens(req.form)), NoIterErr).items
       /\ nextStartToken
            = runQuery(ReqKind, newUserQuery(OmitBadTokens(req.form)), NoIterErr).token

\* A list with an end token that does not decode returns two entities.
C12_Witness ==
    /\ op = "list" /\ req.form.end = BadToken /\ req.form.sort = <<>>
    /\ status = 200
    /\ Len(items) = 2

\* C15: limit bounds the page.  A list call with limit=K returns at most
\* max(K, 0) items.
C15_LimitBoundsPage ==
    (op = "list" /\ status = 200 /\ req.form.limit.present)
    => Len(items) <= (IF req.form.limit.n > 0 THEN req.form.limit.n ELSE 0)

\* C17: the token of a zero-row list is inert.  A list call that yields no
\* row is answered 200 with no items, and the same query started at the token
\* it returned yields no row either.
C17_ZeroRowTokenInert ==
    (op = "list" /\ req.iterErr = NoIterErr /\ ~QueryErr(newUserQuery(req.form))
        /\ Rows(ReqKind, newUserQuery(req.form)) = <<>>)
    => /\ status = 200 /\ items = <<>>
       /\ Rows(ReqKind, newUserQuery([req.form EXCEPT !.start = nextStartToken])) = <<>>

\* C14: get and list never mutate.  A step that serves a get or a list,
\* whatever its status, leaves every stored entity, its properties and the
\* ids the datastore hands out as they were.
C14_ReadsDoNotMutate ==
    [][op' \in {"get", "list"} => (store' = store /\ nextID' = nextID)]_vars

\* A get has returned an entity that holds properties.
C14_Witness ==
    /\ op = "get" /\ status = 200
    /\ ReqID \in DOMAIN store[ReqKind]
    /\ Len(store[ReqKind][ReqID]) >= 2

\* C16: dispatch by path shape.  A request to /{kind}/{id}, for any integer
\* id, goes to get (GET), update (POST) or delete (DELETE); a request to
\* /{kind} goes to insert (POST) or list (GET); any other method is answered
\* 405.
C16_DispatchByPathShape ==
    (op # "idle" /\ req.auth = "ok")
    => IF req.path.hasID
       THEN /\ req.method = "GET" => op = "get"
            /\ req.method = "POST" => op = "update"
            /\ req.method = "DELETE" => op = "delete"
            /\ req.method \notin {"GET", "POST", "DELETE"} => status = 405
       ELSE /\ req.method = "POST" => op = "insert"
            /\ req.method = "GET" => op = "list"
            /\ req.method \notin {"GET", "POST"} => status = 405

\* C18: failed writes leave the store unchanged.  An insert or update whose
\* body is not JSON, or whose Put fails, is answered 500 without a Document,
\* and every stored entity and the ids the datastore hands out are as before.
C18_FailedWritesLeaveStore ==
    [][(op' \in {"insert", "update"} /\ (req'.badJSON \/ req'.backendErr))
        => (status' = 500 /\ resp' = EmptyDoc /\ store' = store /\ nextID' = nextID)]_vars

\* An update of a stored entity has failed for a body that is not JSON.
C18_Witness ==
    /\ op = "update" /\ req.badJSON
    /\ status = 500
    /\ ReqID \in DOMAIN store[ReqKind]
    /\ written[ReqKind][ReqID].madeBy = "insert"

\* The keys of a storage kind whose entity a step creates, changes or removes.
Touched(k) ==
    {id \in DOMAIN store[k] \cup DOMAIN store'[k] :
        \/ id \notin DOMAIN store[k]
        \/ id \notin DOMAIN store'[k]
        \/ store'[k][id] # store[k][id]}

\* C19: tenant isolation on writes.  A request creates, changes or removes at
\* most one entity; that entity is of the storage kind identity--kind of the
\* request's own identity and path, and if it was stored before, it was last
\* written under the same identity.  The ids handed out for other storage
\* kinds stay as they were.
C19_WritesStayInTenant ==
    [][ /\ Cardinality(UNION {{<<k, id>> : id \in Touched(k)} : k \in DOMAIN store}) <= 1
        /\ \A k \in DOMAIN store :
              /\ Touched(k) # {}
                    => k = req'.userID \o "--" \o getKindAndID(req'.path).kind
              /\ nextID'[k] # nextID[k]
                    => k = req'.userID \o "--" \o getKindAndID(req'.path).kind
              /\ \A id \in Touched(k) \cap DOMAIN store[k] :
                    written[k][id].userID = req'.userID ]_vars

\* One identity has inserted an entity while the other identity holds an
\* entity of the same logical kind and id with other properties.
C19_Witness ==
    /\ op = "insert" /\ status = 200 /\ req.userID = "u1"
    /\ resp[idKey].s \in DOMAIN store[StorageKind("u2", getKindAndID(req.path).kind)]
    /\ store[StorageKind("u2", getKindAndID(req.path).kind)][resp[idKey].s]
         # store[ReqKind][resp[idKey].s]

\* C13: last write wins without merging.  When two concurrent updates of
\* one entity have both returned, each got the status its own body and its
\* own Put earned (200 unless its body was not JSON or its Put failed), and
\* if a Put was made, the stored property list is the full encoding of the
\* Document of one update that returned 200, the one whose Put came last:
\* no property of the other update or of the earlier entity is left.
C13_LastWriteWins ==
    (\A p \in Procs : rpc[p] = "done")
    => /\ \A p \in Procs :
            rstatus[p] = IF rreq[p].badJSON \/ rreq[p].backendErr THEN 500 ELSE 200
       /\ (\E p \in Procs : rstatus[p] = 200)
            => /\ \E p \in Procs :
                    /\ rstatus[p] = 200
                    /\ store[RaceKind][RacePath.id] \in mapToPlist(<<>>, rdoc[p])
               /\ store[RaceKind][RacePath.id]
                    \in mapToPlist(<<>>, UpdateDoc(written[RaceKind][RacePath.id]))

\* Two updates with different bodies have both Put, over an entity that held
\* yet other properties.
C13_Witness ==
    /\ \A p \in Procs : rpc[p] = "done" /\ rstatus[p] = 200
    /\ rreq[1].body = (name :> Scalar(1))
    /\ rreq[2].body = (tags :> Array(<<Scalar(1), Scalar(2)>>))
    /\ written[RaceKind][RacePath.id].madeBy = "insert"
    /\ store[RaceKind][RacePath.id] \in mapToPlist(<<>>, rdoc[1])

RECURSIVE NoSingletonArray(_)
\* Every array-valued field, at any depth, has a length other than 1.
NoSingletonArray(d) ==
    \A k \in DOMAIN d :
        /\ d[k].t = "a" => Len(d[k].a) # 1
        /\ d[k].t = "d" => NoSingletonArray(d[k].d)

\* C6 (as amended): codec round trip.  For every Document without "." in a
\* key, whose arrays all have at least two elements, all scalars, and whose
\* nested documents are non-empty, and for every id, decoding any encoding of
\* the Document gives the Document extended with _id = id.
C6_RoundTrip ==
    (cstep = "roundtrip" /\ Lossless(cdoc)) => cout = (idKey :> Int64(cid)) @@ cdoc

\* C6 as stated: the round trip holds whenever no array has length 1.
C6_Original ==
    (cstep = "roundtrip" /\ NoSingletonArray(cdoc)) => cout = (idKey :> Int64(cid)) @@ cdoc

\* A Document with a nested document, an array and a caller's _id has made
\* the round trip.
C6_Witness ==
    /\ cstep = "roundtrip"
    /\ Lossless(cdoc)
    /\ idKey \in DOMAIN cdoc
    /\ <<"a">> \in DOMAIN cdoc /\ cdoc[<<"a">>].t = "d"
    /\ cdoc[<<"a">>].d[<<"b">>].t = "a"
    /\ cout[<<"a">>] = cdoc[<<"a">>]

RECURSIVE HitsScalar(_, _)
\* Walking parts from the map sub, an intermediate segment holds a scalar.
HitsScalar(sub, parts) ==
    /\ Len(parts) > 1
    /\ <<parts[1]>> \in DOMAIN sub
    /\ IF sub[<<parts[1]>>].t = "d" THEN HitsScalar(sub[<<parts[1]>>].d, Tail(parts))
       ELSE IsScalar(sub[<<parts[1]>>])

\* The list pl without its i-th property.
Without(pl, i) == SubSeq(pl, 1, i - 1) \o SubSeq(pl, i + 1, Len(pl))

\* C8: decode conflict policy.  A property whose path runs into a scalar that
\* an earlier property stored is dropped: the decoded Document is the one
\* decoded from the list without that property.
C8_ConflictDropped ==
    cstep = "decoded"
    => \A i \in 1..Len(cpl) :
          HitsScalar(DecodeProps(EmptyDoc, SubSeq(cpl, 1, i - 1)), cpl[i].Name)
          => cout = plistToMap(Without(cpl, i), cid)

\* The items of one list call without limit and start for the client's sort.
AllItems ==
    LET ids == QueryRows(PageKind, newUserQuery(Form(NoLimit, EmptyToken, EmptyToken,
                                                     pquery.sort, <<>>)))
    IN [i \in 1..Len(ids) |-> plistToMap(store[PageKind][ids[i]], ids[i])]

\* C7: pagination completeness.  What the client has gathered is at all
\* times a prefix of the unbounded list, and at the end it is the whole of
\* it: same entities, same order, none twice, none left out.
C7_PaginationComplete ==
    pstep # "off"
    => /\ Len(pacc) <= Len(AllItems)
       /\ pacc = SubSeq(AllItems, 1, Len(pacc))
       /\ pstep = "end" => pacc = AllItems

\* Three entities read one at a time to the end.
C7_Witness ==
    /\ pstep = "end"
    /\ pquery.limit = 1
    /\ Len(pacc) = 3
    /\ Cardinality({pacc[i][idKey] : i \in 1..3}) = 3

====
